---- MODULE Spec2Model ----
(***************************************************************************)
(* Model of ntm.py, the Network Traffic Monitor: the TrafficCollector      *)
(* (counter deltas, interval-floored rates, exponential moving average),   *)
(* the AnsiRenderer's running bar ceilings and the driver loop of main().  *)
(*                                                                         *)
(* Python floats are modelled as exact rationals <<n, d>> with d > 0 in    *)
(* lowest terms; clock readings are rationals in seconds.                  *)
(***************************************************************************)
EXTENDS Integers, Sequences, FiniteSets, TLC

\* ---------------------------------------------------------------- bounds
\* ticks taken by a run that has no --once / --count bound
MaxTicks == 3

\* ------------------------------------------------------------- rationals
Abs(x) == IF x < 0 THEN -x ELSE x

RECURSIVE Gcd(_, _)
Gcd(a, b) == IF b = 0 THEN a ELSE Gcd(b, a % b)

Lcm(a, b) == (a \div Gcd(a, b)) * b

Norm(n, d) ==
    LET g == Gcd(Abs(n), d)
    IN  <<n \div g, d \div g>>

R(n) == <<n, 1>>

RAdd(x, y) ==
    LET l == Lcm(x[2], y[2])
    IN  Norm(x[1] * (l \div x[2]) + y[1] * (l \div y[2]), l)

RNeg(x) == <<-x[1], x[2]>>

RSub(x, y) == RAdd(x, RNeg(y))

RMul(x, y) ==
    LET g1 == Gcd(Abs(x[1]), y[2])
        g2 == Gcd(Abs(y[1]), x[2])
    IN  Norm((x[1] \div g1) * (y[1] \div g2), (x[2] \div g2) * (y[2] \div g1))

\* x / y for y > 0 (the only divisors the program uses are floored intervals
\* and running maxima, both positive)
RDiv(x, y) == RMul(x, <<y[2], y[1]>>)

RLt(x, y) ==
    LET l == Lcm(x[2], y[2])
    IN  x[1] * (l \div x[2]) < y[1] * (l \div y[2])

RLe(x, y) == ~RLt(y, x)

\* Python's max(a, b): b only when it is strictly greater
RMax(a, b) == IF RLt(a, b) THEN b ELSE a

\* ------------------------------------------------------- the environment
\* psutil.net_io_counters(pernic=True): a dict nic name -> counters
Nic(s, r) == [bytes_sent |-> s, bytes_recv |-> r]

NoNics == [n \in {} |-> Nic(0, 0)]

Snapshots ==
    { NoNics,
      "eth0" :> Nic(0, 0),
      ("eth0" :> Nic(1000, 2000)) @@ ("lo" :> Nic(500, 100)),
      "lo" :> Nic(500, 100) }

\* time.time() readings, in seconds; successive readings are unconstrained,
\* so equal readings, readings less than 10 ms apart and backward steps all
\* occur
ClockValues == { <<0, 1>>, <<1, 101>>, <<1, 1>> }

\* command lines
IfaceArgs == {"all", "eth0", "wlan0"}

AlphaArgs == { <<0, 1>>, <<1, 5>>, <<1, 1>>, <<3, 2>> }

OutputArgs ==
    { [json |-> TRUE,  plain |-> FALSE, view |-> "both"],
      [json |-> FALSE, plain |-> TRUE,  view |-> "both"],
      [json |-> FALSE, plain |-> FALSE, view |-> "raw"],
      [json |-> FALSE, plain |-> FALSE, view |-> "ema"],
      [json |-> FALSE, plain |-> FALSE, view |-> "both"] }

\* an absent value (Python's None, or a name not bound yet)
None == << >>

Some(x) == <<x>>

BoundArgs ==
    { [once |-> TRUE,  count |-> None],
      [once |-> FALSE, count |-> None],
      [once |-> FALSE, count |-> Some(0)],
      [once |-> FALSE, count |-> Some(2)] }

ArgSets ==
    { [iface |-> f, no_ema |-> e, ema_alpha |-> a,
       json |-> o.json, plain |-> o.plain, view |-> o.view,
       once |-> b.once, count |-> b.count] :
         f \in IfaceArgs, e \in BOOLEAN, a \in AlphaArgs,
         o \in OutputArgs, b \in BoundArgs }

\* ---------------------------------------------------- TrafficCollector
RECURSIVE SumSent(_)
SumSent(counters) ==
    IF DOMAIN counters = {} THEN 0
    ELSE LET n == CHOOSE m \in DOMAIN counters : TRUE
         IN  counters[n].bytes_sent
               + SumSent([m \in DOMAIN counters \ {n} |-> counters[m]])

RECURSIVE SumRecv(_)
SumRecv(counters) ==
    IF DOMAIN counters = {} THEN 0
    ELSE LET n == CHOOSE m \in DOMAIN counters : TRUE
         IN  counters[n].bytes_recv
               + SumRecv([m \in DOMAIN counters \ {n} |-> counters[m]])

\* mutant: an empty report is an error for every selector
NotFoundOrEmpty(iface, counters) ==
    \/ iface # "all" /\ iface \notin DOMAIN counters
    \/ DOMAIN counters = {}

\* _read_counters raises ValueError
NotFound(iface, counters) == iface # "all" /\ iface \notin DOMAIN counters

\* _read_counters, when it returns
ReadCounters(iface, counters) ==
    IF iface = "all"
    THEN [sent |-> SumSent(counters), recv |-> SumRecv(counters)]
    ELSE [sent |-> counters[iface].bytes_sent,
          recv |-> counters[iface].bytes_recv]

MinInterval == <<1, 100>>

\* mutant: the floor is 1 ms
IntervalLowFloor(now, last_time) == RMax(RSub(now, last_time), <<1, 1000>>)

Interval(now, last_time) == RMax(RSub(now, last_time), MinInterval)

\* mutant: a counter decrease is clamped to a zero rate
RateClamped(current, prev, interval) ==
    IF current < prev THEN R(0) ELSE RDiv(R(current - prev), interval)

Rate(current, prev, interval) == RDiv(R(current - prev), interval)

\* mutant: the first tick is blended with the initial accumulator
EmaUnseeded(use_ema, ema_initialized, alpha, rate, ema) ==
    IF use_ema
    THEN RAdd(RMul(alpha, rate), RMul(RSub(R(1), alpha), ema))
    ELSE rate

\* mutant: the weights of the new rate and of the old average are exchanged
EmaSwapped(use_ema, ema_initialized, alpha, rate, ema) ==
    IF use_ema
    THEN IF ~ema_initialized
         THEN rate
         ELSE RAdd(RMul(RSub(R(1), alpha), rate), RMul(alpha, ema))
    ELSE rate

\* mutant: without EMA the rate is blended instead of passed through
EmaNoPassThrough(use_ema, ema_initialized, alpha, rate, ema) ==
    IF use_ema /\ ~ema_initialized
    THEN rate
    ELSE RAdd(RMul(alpha, rate), RMul(RSub(R(1), alpha), ema))

Ema(use_ema, ema_initialized, alpha, rate, ema) ==
    IF use_ema
    THEN IF ~ema_initialized
         THEN rate
         ELSE RAdd(RMul(alpha, rate), RMul(RSub(R(1), alpha), ema))
    ELSE rate

Total(current, start) == current - start

NewCollector(iface, use_ema, alpha, now, counters) ==
    [ iface |-> iface, use_ema |-> use_ema, alpha |-> alpha,
      start_time |-> now, last_time |-> now,
      start_counters |-> ReadCounters(iface, counters),
      prev_counters |-> ReadCounters(iface, counters),
      sent_ema |-> R(0), recv_ema |-> R(0), ema_initialized |-> FALSE ]

\* mutant: sample() also moves the baseline to this tick's read
SampleStateRebase(c, now, counters) ==
    LET interval == Interval(now, c.last_time)
        current == ReadCounters(c.iface, counters)
        sent_rate == Rate(current.sent, c.prev_counters.sent, interval)
        recv_rate == Rate(current.recv, c.prev_counters.recv, interval)
    IN  [ c EXCEPT
            !.sent_ema = Ema(c.use_ema, c.ema_initialized, c.alpha, sent_rate, @),
            !.recv_ema = Ema(c.use_ema, c.ema_initialized, c.alpha, recv_rate, @),
            !.ema_initialized = c.use_ema \/ @,
            !.start_counters = current,
            !.prev_counters = current,
            !.last_time = now ]

\* the collector after sample() has read `now` and `counters`
SampleState(c, now, counters) ==
    LET interval == Interval(now, c.last_time)
        current == ReadCounters(c.iface, counters)
        sent_rate == Rate(current.sent, c.prev_counters.sent, interval)
        recv_rate == Rate(current.recv, c.prev_counters.recv, interval)
    IN  [ c EXCEPT
            !.sent_ema = Ema(c.use_ema, c.ema_initialized, c.alpha, sent_rate, @),
            !.recv_ema = Ema(c.use_ema, c.ema_initialized, c.alpha, recv_rate, @),
            !.ema_initialized = c.use_ema \/ @,
            !.prev_counters = current,
            !.last_time = now ]

\* the dict sample() returns
SampleData(c, now, counters) ==
    LET interval == Interval(now, c.last_time)
        current == ReadCounters(c.iface, counters)
        after == SampleState(c, now, counters)
    IN  [ iface |-> c.iface,
          interval |-> interval,
          sent_Bps |-> Rate(current.sent, c.prev_counters.sent, interval),
          recv_Bps |-> Rate(current.recv, c.prev_counters.recv, interval),
          sent_ema_Bps |-> after.sent_ema,
          recv_ema_Bps |-> after.recv_ema,
          ema_enabled |-> c.use_ema,
          ema_alpha |-> c.alpha,
          total_sent_B |-> Total(current.sent, c.start_counters.sent),
          total_recv_B |-> Total(current.recv, c.start_counters.recv),
          uptime |-> RSub(now, c.start_time),
          timestamp |-> now ]

\* ---------------------------------------------------------- renderers
BarWidth == 50

NewRenderer(a) ==
    IF a.json THEN [kind |-> "JsonRenderer"]
    ELSE IF a.plain THEN [kind |-> "PlainRenderer"]
    ELSE [kind |-> "AnsiRenderer", view |-> a.view,
          max_sent |-> R(1), max_recv |-> R(1), bar_width |-> BarWidth]

\* mutant: the raw view is driven by the smoothed rate and the others by the
\* instantaneous rate
BarSentSwapped(view, d) == IF view = "raw" THEN d.sent_ema_Bps ELSE d.sent_Bps

BarSent(view, d) == IF view = "raw" THEN d.sent_Bps ELSE d.sent_ema_Bps

BarRecv(view, d) == IF view = "raw" THEN d.recv_Bps ELSE d.recv_ema_Bps

\* mutant: the ceiling forgets the earlier ticks
MaxSeenReset(max_value, bar) == RMax(R(1), bar)

MaxSeen(max_value, bar) == RMax(max_value, bar)

\* int(x): truncation toward zero
Trunc(x) == IF x[1] >= 0 THEN x[1] \div x[2] ELSE -((-x[1]) \div x[2])

\* str * n: the empty string for n <= 0
Repeat(n) == IF n < 0 THEN 0 ELSE n

\* _bar: the numbers of block and blank cells drawn
Bar(value, max_value, bar_width) ==
    LET ratio == IF RLt(RDiv(value, max_value), R(1))
                 THEN RDiv(value, max_value) ELSE R(1)
        filled == Trunc(RMul(ratio, R(bar_width)))
    IN  [blocks |-> Repeat(filled), blanks |-> Repeat(bar_width - filled)]

RenderState(r, d) ==
    IF r.kind = "AnsiRenderer"
    THEN [ r EXCEPT !.max_sent = MaxSeen(@, BarSent(r.view, d)),
                    !.max_recv = MaxSeen(@, BarRecv(r.view, d)) ]
    ELSE r

\* what render() shows for the tick: the two bars of the dashboard
RenderOutput(r, d) ==
    IF r.kind = "AnsiRenderer"
    THEN LET after == RenderState(r, d)
         IN  [ out |-> Bar(BarSent(r.view, d), after.max_sent, r.bar_width),
               in  |-> Bar(BarRecv(r.view, d), after.max_recv, r.bar_width) ]
    ELSE [ line |-> r.kind ]

\* ---------------------------------------------------------------- main
VARIABLES
    pc,          \* where main() is
    args,        \* the parsed command line
    collector,   \* the TrafficCollector
    renderer,    \* the Renderer
    data,        \* the dict returned by the latest sample()
    screen,      \* what the latest render() drew
    i,           \* main's iteration counter
    samples,     \* number of sample() calls that returned
    renders,     \* number of render() calls
    os_reads,    \* OS snapshots read by the latest collector call
    message,     \* the last message printed or exception raised
    exit_code,   \* process exit status, None while running
    interrupted, \* a KeyboardInterrupt was raised inside main's try block
    call,        \* the humanize_bytes call in progress, None outside one
    history      \* the Samples of a run computed in float arithmetic

vars == <<pc, args, collector, renderer, data, screen, i, samples, renders,
          os_reads, message, exit_code, interrupted, call,
          history>>

\* mutant: 0 <= alpha <= 1
AlphaOkClosed(alpha) == RLe(R(0), alpha) /\ RLe(alpha, R(1))

AlphaOk(alpha) == RLt(R(0), alpha) /\ RLe(alpha, R(1))

\* main, line 241
Iterations(a) == IF a.once THEN Some(1) ELSE a.count

Init ==
    /\ pc = "validate"
    /\ args \in ArgSets
    /\ collector = None
    /\ renderer = None
    /\ data = None
    /\ screen = None
    /\ i = 0
    /\ samples = 0
    /\ renders = 0
    /\ os_reads = << >>
    /\ message = ""
    /\ exit_code = None
    /\ interrupted = FALSE
    /\ call = None
    /\ history = << >>

Exit(code, msg) ==
    /\ pc' = "exit"
    /\ exit_code' = Some(code)
    /\ message' = msg

\* main, lines 223-226
Validate ==
    /\ pc = "validate"
    /\ IF AlphaOk(args.ema_alpha)
       THEN pc' = "construct" /\ UNCHANGED <<exit_code, message>>
       ELSE Exit(1, "EMA alpha must be between 0 and 1")
    /\ UNCHANGED <<history, call, interrupted, args, collector, renderer, data, screen, i, samples,
                   renders, os_reads>>

\* mutant: the constructor does not check that the OS reports interfaces
ConstructUnchecked ==
    /\ pc = "construct"
    /\ \E first \in Snapshots, now \in ClockValues, second \in Snapshots :
         /\ os_reads' = <<first, second>>
         /\ IF NotFound(args.iface, second)
            THEN /\ Exit(1, "ValueError: Interface not found")
                 /\ UNCHANGED collector
            ELSE /\ collector' = NewCollector(args.iface, ~args.no_ema,
                                              args.ema_alpha, now, second)
                 /\ pc' = "renderer"
                 /\ UNCHANGED <<exit_code, message>>
    /\ UNCHANGED <<history, call, interrupted, args, renderer, data, screen, i, samples, renders>>

\* main, lines 228-232: TrafficCollector(...)
Construct ==
    /\ pc = "construct"
    /\ \E first \in Snapshots :
         IF first = NoNics
         THEN /\ Exit(1, "RuntimeError: No network interfaces found")
              /\ os_reads' = <<first>>
              /\ UNCHANGED collector
         ELSE \E now \in ClockValues, second \in Snapshots :
                /\ os_reads' = <<first, second>>
                /\ IF NotFound(args.iface, second)
                   THEN /\ Exit(1, "ValueError: Interface not found")
                        /\ UNCHANGED collector
                   ELSE /\ collector' = NewCollector(args.iface, ~args.no_ema,
                                                     args.ema_alpha, now, second)
                        /\ pc' = "renderer"
                        /\ UNCHANGED <<exit_code, message>>
    /\ UNCHANGED <<history, call, interrupted, args, renderer, data, screen, i, samples, renders>>

\* main, lines 234-242
SelectRenderer ==
    /\ pc = "renderer"
    /\ renderer' = NewRenderer(args)
    /\ i' = 0
    /\ pc' = "sample"
    /\ UNCHANGED <<history, call, interrupted, args, collector, data, screen, samples, renders, os_reads,
                   message, exit_code>>

\* mutant: a lost interface is reported and the tick is skipped
SampleRetry ==
    /\ pc = "sample"
    /\ i < MaxTicks
    /\ \E now \in ClockValues, counters \in Snapshots :
         /\ os_reads' = <<counters>>
         /\ IF NotFound(collector.iface, counters)
            THEN /\ message' = "Network interface lost. Exiting."
                 /\ pc' = "sleep"
                 /\ UNCHANGED <<collector, data, samples, exit_code>>
            ELSE /\ collector' = SampleState(collector, now, counters)
                 /\ data' = SampleData(collector, now, counters)
                 /\ samples' = samples + 1
                 /\ pc' = "render"
                 /\ UNCHANGED <<exit_code, message>>
    /\ UNCHANGED <<history, call, interrupted, args, renderer, screen, i, renders>>

\* main, line 246: collector.sample()
Sample ==
    /\ pc = "sample"
    /\ i < MaxTicks
    /\ \E now \in ClockValues, counters \in Snapshots :
         /\ os_reads' = <<counters>>
         /\ IF NotFound(collector.iface, counters)
            THEN /\ Exit(1, "Network interface lost. Exiting.")
                 /\ UNCHANGED <<collector, data, samples>>
            ELSE /\ collector' = SampleState(collector, now, counters)
                 /\ data' = SampleData(collector, now, counters)
                 /\ samples' = samples + 1
                 /\ pc' = "render"
                 /\ UNCHANGED <<exit_code, message>>
    /\ UNCHANGED <<history, call, interrupted, args, renderer, screen, i, renders>>

\* mutant: render() clamps a negative rate in the dict it is given
RenderClampsSample ==
    /\ pc = "render"
    /\ renderer' = RenderState(renderer, data)
    /\ screen' = RenderOutput(renderer, data)
    /\ data' = [data EXCEPT !.sent_Bps = RMax(@, R(0))]
    /\ renders' = renders + 1
    /\ pc' = "count"
    /\ UNCHANGED <<history, call, interrupted, args, collector, i, samples, os_reads, message,
                   exit_code>>

\* main, line 247: renderer.render(data)
Render ==
    /\ pc = "render"
    /\ renderer' = RenderState(renderer, data)
    /\ screen' = RenderOutput(renderer, data)
    /\ renders' = renders + 1
    /\ pc' = "count"
    /\ UNCHANGED <<history, call, interrupted, args, collector, data, i, samples, os_reads, message,
                   exit_code>>

\* main, lines 248-251
Count ==
    /\ pc = "count"
    /\ i' = i + 1
    /\ IF Iterations(args) # None /\ i + 1 >= Iterations(args)[1]
       THEN Exit(0, message)
       ELSE pc' = "sleep" /\ UNCHANGED <<exit_code, message>>
    /\ UNCHANGED <<history, call, interrupted, args, collector, renderer, data, screen, samples, renders,
                   os_reads>>

\* mutant: after the sleep the previous Sample is rendered again
SleepThenRender ==
    /\ pc = "sleep"
    /\ pc' = "render"
    /\ UNCHANGED <<history, call, interrupted, args, collector, renderer, data, screen, i,
                   samples, renders, os_reads, message, exit_code>>

\* main, line 253
Sleep ==
    /\ pc = "sleep"
    /\ pc' = "sample"
    /\ UNCHANGED <<history, call, interrupted, args, collector, renderer, data, screen, i, samples,
                   renders, os_reads, message, exit_code>>

\* The fields sample() assigns, in the order of lines 78-92; a
\* KeyboardInterrupt raised inside sample() leaves a prefix of them assigned.
SampleSteps == <<"sent_ema", "recv_ema", "ema_initialized", "prev_counters",
                 "last_time">>

\* the collector when sample() is interrupted after its first k assignments
SamplePartial(c, now, counters, k) ==
    LET after == SampleState(c, now, counters)
        done == {SampleSteps[j] : j \in 1..k}
    IN  [ f \in DOMAIN c |-> IF f \in done THEN after[f] ELSE c[f] ]

\* the renderer when render() is interrupted after its first k assignments
\* (lines 158-159)
RenderPartial(r, d, k) ==
    IF r.kind = "AnsiRenderer"
    THEN LET after == RenderState(r, d)
         IN  [ r EXCEPT !.max_sent = IF k >= 1 THEN after.max_sent ELSE @,
                        !.max_recv = IF k >= 2 THEN after.max_recv ELSE @ ]
    ELSE r

\* mutant: the KeyboardInterrupt is not caught
StoppedUncaught ==
    /\ interrupted' = TRUE
    /\ Exit(1, "KeyboardInterrupt")

\* main, lines 254-255: except KeyboardInterrupt
Stopped ==
    /\ interrupted' = TRUE
    /\ Exit(0, "Stopped.")

\* KeyboardInterrupt raised while collector.sample() runs (line 246)
InterruptSample ==
    /\ pc = "sample"
    /\ i < MaxTicks
    /\ \E now \in ClockValues, counters \in Snapshots :
         /\ os_reads' = <<counters>>
         /\ IF NotFound(collector.iface, counters)
            THEN UNCHANGED collector
            ELSE \E k \in 0..Len(SampleSteps) :
                   collector' = SamplePartial(collector, now, counters, k)
    /\ Stopped
    /\ UNCHANGED <<history, call, args, renderer, data, screen, i, samples, renders>>

\* KeyboardInterrupt raised while renderer.render(data) runs (line 247)
InterruptRender ==
    /\ pc = "render"
    /\ \E k \in 0..2 : renderer' = RenderPartial(renderer, data, k)
    /\ Stopped
    /\ UNCHANGED <<history, call, args, collector, data, screen, i, samples, renders,
                   os_reads>>

\* KeyboardInterrupt raised between ticks (lines 248-253, the sleep included)
InterruptIdle ==
    /\ pc \in {"count", "sleep"}
    /\ Stopped
    /\ UNCHANGED <<history, call, args, collector, renderer, data, screen, i, samples,
                   renders, os_reads>>

Next ==
    \/ Validate
    \/ Construct
    \/ SelectRenderer
    \/ Sample
    \/ Render
    \/ Count
    \/ Sleep

\* runs that the user does not interrupt
Spec == Init /\ [][Next]_vars

\* command lines of the runs in which Ctrl+C may be pressed
InterruptArgSets ==
    { a \in ArgSets : /\ a.ema_alpha = <<1, 5>>
                      /\ a.iface \in {"all", "eth0"}
                      /\ ~a.once
                      /\ ~a.plain
                      /\ a.view # "ema" }

InitInterrupt ==
    /\ Init
    /\ args \in InterruptArgSets

NextInterrupt ==
    \/ Next
    \/ InterruptSample
    \/ InterruptRender
    \/ InterruptIdle

\* runs in which a KeyboardInterrupt may arrive once main is in its try block
SpecInterrupt == InitInterrupt /\ [][NextInterrupt]_vars

\* ------------------------------------------------------------ properties

\* ------------------------------------------------------ humanize_bytes
\* A float is written [m, e] and denotes m * 1024^e, with m a rational whose
\* denominator is a power of two; division by 1024 is exact on floats.
Units == <<"B", "KB", "MB", "GB", "TB">>

\* n/d * 1024^e >= 1, for d > 0
RECURSIVE ScaledGeOne(_, _, _)
ScaledGeOne(n, d, e) ==
    IF n <= 0 THEN FALSE
    ELSE IF e = 0 THEN n >= d
    ELSE IF e > 0
         THEN IF n >= d THEN TRUE ELSE ScaledGeOne(n * 1024, d, e - 1)
         ELSE IF n >= d THEN ScaledGeOne(n, d * 1024, e + 1) ELSE FALSE

\* mutant: the magnitude is compared, so negative values are scaled too
AtLeast1024Abs(value) == ScaledGeOne(Abs(value.m[1]), value.m[2], value.e - 1)

\* value >= 1024
AtLeast1024(value) == ScaledGeOne(value.m[1], value.m[2], value.e - 1)

\* value /= 1024
Div1024(value) == [value EXCEPT !.e = @ - 1]

RECURSIVE Pow1024(_)
Pow1024(e) == IF e = 0 THEN 1 ELSE 1024 * Pow1024(e - 1)

\* the magnitude of a float, as a rational
Magnitude(value) ==
    LET m == <<Abs(value.m[1]), value.m[2]>>
    IN  IF value.e >= 0 THEN RMul(m, R(Pow1024(value.e)))
        ELSE RDiv(m, R(Pow1024(-value.e)))

\* the nearest integer to q >= 0, ties to the even one
RoundHalfEven(q) ==
    LET f == q[1] \div q[2]
        r == q[1] - f * q[2]
    IN  IF 2 * r < q[2] THEN f
        ELSE IF 2 * r > q[2] THEN f + 1
        ELSE IF f % 2 = 0 THEN f ELSE f + 1

\* f"{value:.1f} {unit}{suffix}": the sign, the number in tenths, the unit and
\* the suffix
Format(value, unit, suffix) ==
    [ negative |-> value.m[1] < 0,
      tenths |-> RoundHalfEven(RMul(R(10), Magnitude(value))),
      unit |-> unit,
      suffix |-> suffix ]

Mantissas ==
    { <<1, 4>>, <<3, 4>>, R(1), R(500), R(1023), <<32767, 32>>,
      R(1024), R(1536) }

\* zero and negative values are printed unscaled, so they are kept small
UnscaledMantissas == { R(0), R(-1), <<-1, 4>>, R(-2048) }

Exponents == 0 .. 5

\* the arguments humanize_bytes is called with
HumanizeValues ==
    { [m |-> m, e |-> e] : m \in Mantissas, e \in Exponents }
      \cup { [m |-> m, e |-> e] : m \in UnscaledMantissas, e \in {0, 1} }
      \cup { [m |-> R(1048575), e |-> 0], [m |-> R(1048576), e |-> 0] }

HumanizeCalls ==
    { [given |-> v, rate |-> r, value |-> v, idx |-> 0, text |-> None] :
        v \in HumanizeValues, r \in BOOLEAN }

InitHumanize ==
    /\ pc = "humanize_bytes"
    /\ call \in HumanizeCalls
    /\ args = None
    /\ collector = None
    /\ renderer = None
    /\ data = None
    /\ screen = None
    /\ i = 0
    /\ samples = 0
    /\ renders = 0
    /\ os_reads = << >>
    /\ message = ""
    /\ exit_code = None
    /\ interrupted = FALSE
    /\ history = << >>

\* humanize_bytes, lines 18-20: one iteration of the loop
HumanizeLoop ==
    /\ pc = "humanize_bytes"
    /\ AtLeast1024(call.value) /\ call.idx < Len(Units) - 1
    /\ call' = [call EXCEPT !.value = Div1024(@), !.idx = @ + 1]
    /\ UNCHANGED <<pc, args, collector, renderer, data, screen, i, samples,
                   renders, os_reads, message, exit_code, interrupted,
                   history>>

\* humanize_bytes, lines 22-23
HumanizeReturn ==
    /\ pc = "humanize_bytes"
    /\ ~(AtLeast1024(call.value) /\ call.idx < Len(Units) - 1)
    /\ LET suffix == IF call.rate THEN "/s" ELSE ""
       IN  call' = [call EXCEPT
                      !.text = Format(call.value, Units[call.idx + 1], suffix)]
    /\ pc' = "returned"
    /\ UNCHANGED <<args, collector, renderer, data, screen, i, samples,
                   renders, os_reads, message, exit_code, interrupted,
                   history>>

NextHumanize ==
    \/ HumanizeLoop
    \/ HumanizeReturn

\* calls of humanize_bytes on its own
SpecHumanize == InitHumanize /\ [][NextHumanize]_vars


\* ------------------------------------------------- float arithmetic
\* Python floats are IEEE 754 binary64 numbers and every operation on them
\* rounds its exact result to the nearest one, ties to even.  A natural number
\* is a sequence of limbs, least significant first, without leading zeros.
Base == 2^14

RECURSIVE BTrim(_)
BTrim(a) ==
    IF a = << >> THEN a
    ELSE IF a[Len(a)] = 0 THEN BTrim(SubSeq(a, 1, Len(a) - 1)) ELSE a

RECURSIVE BFromInt(_)
BFromInt(n) == IF n = 0 THEN << >> ELSE <<n % Base>> \o BFromInt(n \div Base)

RECURSIVE BAddCarry(_, _, _)
BAddCarry(a, b, carry) ==
    IF a = << >> /\ b = << >>
    THEN IF carry = 0 THEN << >> ELSE <<carry>>
    ELSE LET x == (IF a = << >> THEN 0 ELSE a[1])
                   + (IF b = << >> THEN 0 ELSE b[1]) + carry
         IN  <<x % Base>> \o BAddCarry(IF a = << >> THEN a ELSE Tail(a),
                                       IF b = << >> THEN b ELSE Tail(b),
                                       x \div Base)

BAdd(a, b) == BAddCarry(a, b, 0)

RECURSIVE BSubBorrow(_, _, _)
BSubBorrow(a, b, borrow) ==
    IF a = << >> THEN << >>
    ELSE LET x == a[1] - (IF b = << >> THEN 0 ELSE b[1]) - borrow
         IN  <<IF x < 0 THEN x + Base ELSE x>>
               \o BSubBorrow(Tail(a), IF b = << >> THEN b ELSE Tail(b),
                             IF x < 0 THEN 1 ELSE 0)

\* a - b, for a >= b
BSub(a, b) == BTrim(BSubBorrow(a, b, 0))

\* -1, 0 or 1 as a is below, equal to or above b
RECURSIVE BCmp(_, _)
BCmp(a, b) ==
    IF Len(a) # Len(b) THEN (IF Len(a) < Len(b) THEN -1 ELSE 1)
    ELSE IF a = << >> THEN 0
    ELSE IF a[Len(a)] # b[Len(b)]
         THEN (IF a[Len(a)] < b[Len(b)] THEN -1 ELSE 1)
         ELSE BCmp(SubSeq(a, 1, Len(a) - 1), SubSeq(b, 1, Len(b) - 1))

RECURSIVE BMulLimb(_, _, _)
BMulLimb(a, x, carry) ==
    IF a = << >>
    THEN IF carry = 0 THEN << >> ELSE <<carry>>
    ELSE LET p == a[1] * x + carry
         IN  <<p % Base>> \o BMulLimb(Tail(a), x, p \div Base)

RECURSIVE BMul(_, _)
BMul(a, b) ==
    IF a = << >> \/ b = << >> THEN << >>
    ELSE BTrim(BAdd(BMulLimb(a, b[1], 0), <<0>> \o BMul(a, Tail(b))))

\* a * 2^k
BShl(a, k) ==
    IF a = << >> THEN a
    ELSE [j \in 1 .. (k \div 14) |-> 0] \o BMulLimb(a, 2^(k % 14), 0)

\* a \div 2^k
BShr(a, k) ==
    LET d == k \div 14
        r == k % 14
        b == IF d >= Len(a) THEN << >> ELSE SubSeq(a, d + 1, Len(a))
    IN  BTrim([j \in 1 .. Len(b) |->
                 (b[j] \div 2^r)
                   + (IF j < Len(b) THEN (b[j + 1] % 2^r) * 2^(14 - r) ELSE 0)])

\* quotient and remainder of a by a single limb d
RECURSIVE BDivLimb(_, _)
BDivLimb(a, d) ==
    IF a = << >> THEN [q |-> << >>, r |-> 0]
    ELSE LET hi == BDivLimb(Tail(a), d)
             cur == hi.r * Base + a[1]
         IN  [q |-> <<cur \div d>> \o hi.q, r |-> cur % d]

RECURSIVE LimbBits(_)
LimbBits(x) == IF x = 0 THEN 0 ELSE 1 + LimbBits(x \div 2)

\* the number of binary digits of a
BBits(a) == IF a = << >> THEN 0 ELSE 14 * (Len(a) - 1) + LimbBits(a[Len(a)])

\* A number [neg, m, e] is (-1)^neg * m * 2^e; a float is one whose m has
\* exactly 53 binary digits, or zero.
FloatZero == [neg |-> FALSE, m |-> << >>, e |-> 0]

XNeg(x) == IF x.m = << >> THEN x ELSE [x EXCEPT !.neg = ~@]

\* the exact product
XMul(x, y) ==
    IF x.m = << >> \/ y.m = << >> THEN FloatZero
    ELSE [neg |-> x.neg # y.neg, m |-> BMul(x.m, y.m), e |-> x.e + y.e]

\* the exact sum
XAdd(x, y) ==
    IF x.m = << >> THEN y
    ELSE IF y.m = << >> THEN x
    ELSE LET e0 == IF x.e < y.e THEN x.e ELSE y.e
             a == BShl(x.m, x.e - e0)
             b == BShl(y.m, y.e - e0)
         IN  IF x.neg = y.neg
             THEN [neg |-> x.neg, m |-> BAdd(a, b), e |-> e0]
             ELSE IF BCmp(a, b) = 0 THEN FloatZero
             ELSE IF BCmp(a, b) > 0
                  THEN [neg |-> x.neg, m |-> BSub(a, b), e |-> e0]
                  ELSE [neg |-> y.neg, m |-> BSub(b, a), e |-> e0]

XLt(x, y) ==
    LET d == XAdd(x, XNeg(y))
    IN  d.m # << >> /\ d.neg

XLe(x, y) == ~XLt(y, x)

\* round to nearest, ties to even (the exponent range is never left here)
RoundNearestEven(x) ==
    IF x.m = << >> THEN FloatZero
    ELSE LET bits == BBits(x.m)
         IN  IF bits <= 53
             THEN [x EXCEPT !.m = BShl(@, 53 - bits), !.e = @ - (53 - bits)]
             ELSE LET k == bits - 53
                      q == BShr(x.m, k)
                      rem == BSub(x.m, BShl(q, k))
                      half == BCmp(rem, BShl(<<1>>, k - 1))
                      up == IF half = 0 THEN q[1] % 2 = 1 ELSE half > 0
                      q1 == IF up THEN BAdd(q, <<1>>) ELSE q
                  IN  IF BBits(q1) = 54
                      THEN [x EXCEPT !.m = BShr(q1, 1), !.e = @ + k + 1]
                      ELSE [x EXCEPT !.m = q1, !.e = @ + k]

\* float(n)
FromInt(n) ==
    RoundNearestEven([neg |-> n < 0, m |-> BFromInt(Abs(n)), e |-> 0])

\* the float nearest to n/d, as argparse's type=float reads a decimal literal
FromRatio(n, d) ==
    LET dv == BDivLimb(BShl(BFromInt(Abs(n)), 70), d)
        sticky == IF dv.r = 0 THEN << >> ELSE <<1>>
    IN  RoundNearestEven([neg |-> n < 0,
                          m |-> BAdd(BShl(BTrim(dv.q), 1), sticky),
                          e |-> -71])

FMul(x, y) == RoundNearestEven(XMul(x, y))

FAdd(x, y) == RoundNearestEven(XAdd(x, y))

FSub(x, y) == RoundNearestEven(XAdd(x, XNeg(y)))

\* mutant: the old average is added with its full weight
EmaFloatUnweighted(use_ema, ema_initialized, alpha, rate, ema) ==
    IF use_ema
    THEN IF ~ema_initialized
         THEN rate
         ELSE FAdd(FMul(alpha, rate), ema)
    ELSE rate

\* sample, lines 76-86, in float arithmetic
EmaFloat(use_ema, ema_initialized, alpha, rate, ema) ==
    IF use_ema
    THEN IF ~ema_initialized
         THEN rate
         ELSE FAdd(FMul(alpha, rate), FMul(FSub(FromInt(1), alpha), ema))
    ELSE rate

\* --ema-alpha 0.2, 0.5 and 1.0
FloatAlphas == { FromRatio(1, 5), FromRatio(1, 2), FromInt(1) }

\* bytes counted between two ticks that are exactly one second apart
SentDeltas == {-2, 3, 7}

RecvDeltas == {3, 10}

InitFloat ==
    /\ pc = "sample"
    /\ collector \in { [use_ema |-> TRUE, alpha |-> a, sent_ema |-> FloatZero,
                        recv_ema |-> FloatZero, ema_initialized |-> FALSE] :
                         a \in FloatAlphas }
    /\ history = << >>
    /\ samples = 0
    /\ args = None
    /\ renderer = None
    /\ data = None
    /\ screen = None
    /\ i = 0
    /\ renders = 0
    /\ os_reads = << >>
    /\ message = ""
    /\ exit_code = None
    /\ interrupted = FALSE
    /\ call = None

\* sample, lines 73-86 and 94-107, for an interval of 1.0
SampleFloat ==
    /\ pc = "sample"
    /\ samples < MaxTicks
    /\ \E sent \in SentDeltas, recv \in RecvDeltas :
         LET sent_rate == FromInt(sent)
             recv_rate == FromInt(recv)
             after == [ collector EXCEPT
                          !.sent_ema = EmaFloat(collector.use_ema,
                                                collector.ema_initialized,
                                                collector.alpha, sent_rate, @),
                          !.recv_ema = EmaFloat(collector.use_ema,
                                                collector.ema_initialized,
                                                collector.alpha, recv_rate, @),
                          !.ema_initialized = collector.use_ema \/ @ ]
         IN  /\ collector' = after
             /\ data' = [ sent_Bps |-> sent_rate, recv_Bps |-> recv_rate,
                          sent_ema_Bps |-> after.sent_ema,
                          recv_ema_Bps |-> after.recv_ema,
                          ema_enabled |-> collector.use_ema,
                          ema_alpha |-> collector.alpha ]
             /\ history' = Append(history, data')
    /\ samples' = samples + 1
    /\ UNCHANGED <<pc, args, renderer, screen, i, renders, os_reads, message,
                   exit_code, interrupted, call>>

NextFloat == SampleFloat

\* the smoothing of a run, computed as the floats compute it
SpecFloat == InitFloat /\ [][NextFloat]_vars

\* a sample() call that returned a Sample
SampleReturned == pc = "sample" /\ pc' = "render"

\* a TrafficCollector(...) call that returned
Constructed == pc = "construct" /\ pc' = "renderer"

\* main is inside its loop
InLoop == pc \in {"sample", "render", "count", "sleep"}

\* C1: every Sample's interval is max(now - last_time, 0.01): the raw
\* difference when that is at least 0.01, and 0.01 otherwise (equal readings,
\* readings less than 10 ms apart, a clock stepping backwards); that floored
\* value is the divisor of both rates.
C1_IntervalFloor ==
    [][SampleReturned =>
        LET raw == RSub(data'.timestamp, collector.last_time)
            floored == IF RLt(raw, <<1, 100>>) THEN <<1, 100>> ELSE raw
            current == ReadCounters(collector.iface, os_reads'[1])
        IN  /\ data'.interval = floored
            /\ floored[1] * 100 >= floored[2]
            /\ RMul(data'.sent_Bps, floored)
                 = R(current.sent - collector.prev_counters.sent)
            /\ RMul(data'.recv_Bps, floored)
                 = R(current.recv - collector.prev_counters.recv)]_vars

\* the first tick read a clock that had stepped backwards, and the interval
\* reported is the floor
C1_Witness ==
    /\ pc = "render"
    /\ samples = 1
    /\ data.uptime[1] < 0
    /\ data.interval = <<1, 100>>
    /\ data.sent_Bps # R(0)

\* C2: on every tick each instantaneous rate times the interval is the
\* counter delta between this tick's read and the previous tick's read (the
\* construction read on the first tick), unclamped, so that a decrease gives a
\* negative rate; sample() then makes this tick's read and clock the previous
\* ones.  From {0,0} to {1000,2000} over 1.0 s without EMA the rates are 1000
\* and 2000 and the totals 1000 and 2000.
C2_InstantRate ==
    [][/\ Constructed =>
            collector'.prev_counters = ReadCounters(args.iface, os_reads'[2])
       /\ SampleReturned =>
            LET current == ReadCounters(collector.iface, os_reads'[1])
                prev == collector.prev_counters
            IN  /\ RMul(data'.sent_Bps, data'.interval) = R(current.sent - prev.sent)
                /\ RMul(data'.recv_Bps, data'.interval) = R(current.recv - prev.recv)
                /\ current.sent < prev.sent => data'.sent_Bps[1] < 0
                /\ current.recv < prev.recv => data'.recv_Bps[1] < 0
                /\ collector'.prev_counters = current
                /\ collector'.last_time = data'.timestamp
                /\ ( /\ collector.start_counters = [sent |-> 0, recv |-> 0]
                     /\ samples = 0
                     /\ current = [sent |-> 1000, recv |-> 2000]
                     /\ data'.interval = R(1)
                     /\ ~collector.use_ema )
                   => /\ data'.sent_Bps = R(1000)
                      /\ data'.recv_Bps = R(2000)
                      /\ data'.total_sent_B = 1000
                      /\ data'.total_recv_B = 2000
       /\ InLoop /\ pc # "sample" => UNCHANGED collector]_vars

\* the end-to-end scenario: eth0 from {0,0} to {1000,2000} in 1.0 s, no EMA
C2_Witness ==
    /\ pc = "render"
    /\ samples = 1
    /\ collector.iface = "eth0"
    /\ ~collector.use_ema
    /\ collector.start_counters = [sent |-> 0, recv |-> 0]
    /\ collector.prev_counters = [sent |-> 1000, recv |-> 2000]
    /\ data.interval = R(1)
    /\ data.sent_Bps = R(1000)
    /\ data.recv_Bps = R(2000)
    /\ data.total_sent_B = 1000
    /\ data.total_recv_B = 2000

\* C3: the baseline is the construction read and sample() never changes it;
\* every Sample's totals are this tick's read minus the baseline, whatever the
\* tick spacing, the earlier reads and the EMA settings.
C3_Totals ==
    [][/\ Constructed =>
            collector'.start_counters = ReadCounters(args.iface, os_reads'[2])
       /\ InLoop => UNCHANGED collector.start_counters
       /\ SampleReturned =>
            LET current == ReadCounters(collector.iface, os_reads'[1])
            IN  /\ data'.total_sent_B = current.sent - collector.start_counters.sent
                /\ data'.total_recv_B = current.recv - collector.start_counters.recv]_vars

\* a later tick with no traffic since the previous tick, after earlier ticks
\* moved the counters away from the baseline
C3_Witness ==
    /\ pc = "render"
    /\ samples = 3
    /\ data.sent_Bps = R(0)
    /\ data.total_sent_B < 0
    /\ data.total_recv_B < 0

\* C4: with EMA enabled the first Sample's smoothed rates are its
\* instantaneous rates, whatever alpha and the inputs; the initial
\* accumulator 0.0 is not blended in.
C4_EmaSeeding ==
    (InLoop /\ samples = 1 /\ data.ema_enabled) =>
        /\ data.sent_ema_Bps = data.sent_Bps
        /\ data.recv_ema_Bps = data.recv_Bps
        /\ collector.sent_ema = data.sent_Bps
        /\ collector.recv_ema = data.recv_Bps

\* a first Sample with alpha = 0.2 and non-zero rates in both directions
C4_Witness ==
    /\ pc = "render"
    /\ samples = 1
    /\ data.ema_enabled
    /\ data.ema_alpha = <<1, 5>>
    /\ data.sent_Bps # R(0)
    /\ data.recv_Bps # R(0)
    /\ data.sent_Bps # data.recv_Bps
    /\ data.sent_ema_Bps = data.sent_Bps

\* C5: with EMA enabled, on every tick after the first each direction's
\* smoothed rate is alpha * (this tick's instantaneous rate) + (1 - alpha) *
\* (the smoothed rate emitted by the previous tick).  With alpha = p/q:
\* q * s_i = p * r_i + (q - p) * s_(i-1).
C5_EmaRecurrence ==
    [][(SampleReturned /\ samples >= 1 /\ collector.use_ema) =>
        LET p == collector.alpha[1]
            q == collector.alpha[2]
        IN  /\ RMul(R(q), data'.sent_ema_Bps)
                 = RAdd(RMul(R(p), data'.sent_Bps),
                        RMul(R(q - p), data.sent_ema_Bps))
            /\ RMul(R(q), data'.recv_ema_Bps)
                 = RAdd(RMul(R(p), data'.recv_Bps),
                        RMul(R(q - p), data.recv_ema_Bps))]_vars

\* a third tick with alpha = 0.2 whose smoothed rate is neither this tick's
\* instantaneous rate nor the previous smoothed rate
C5_Witness ==
    /\ pc = "render"
    /\ samples = 3
    /\ data.ema_enabled
    /\ data.ema_alpha = <<1, 5>>
    /\ data.sent_Bps[1] < 0
    /\ data.sent_ema_Bps[1] > 0
    /\ data.recv_ema_Bps # data.recv_Bps
    /\ data.recv_ema_Bps # data.sent_ema_Bps

\* C6: a collector constructed with use_ema = false (--no-ema) reports the
\* instantaneous rates as the smoothed rates on every tick.
C6_EmaDisabled ==
    (InLoop /\ samples >= 1) =>
        /\ data.ema_enabled = ~args.no_ema
        /\ ~data.ema_enabled =>
             /\ data.sent_ema_Bps = data.sent_Bps
             /\ data.recv_ema_Bps = data.recv_Bps

\* a third tick without EMA, alpha = 0.2, the rates differing from zero
C6_Witness ==
    /\ pc = "render"
    /\ samples = 3
    /\ ~data.ema_enabled
    /\ args.ema_alpha = <<1, 5>>
    /\ data.sent_Bps[1] < 0
    /\ data.sent_ema_Bps = data.sent_Bps

\* the process has exited: nothing happens any more
Terminated == pc = "exit" => UNCHANGED vars

\* C7: when sample() reads a snapshot without the named interface the
\* process exits with status 1: no Sample is returned, render is not called,
\* nothing is read again and no further tick occurs.
C7_InterfaceLost ==
    [][/\ ( /\ pc = "sample"
            /\ collector.iface # "all"
            /\ collector.iface \notin DOMAIN os_reads'[1] )
          => /\ pc' = "exit"
             /\ exit_code' = Some(1)
             /\ message' = "Network interface lost. Exiting."
             /\ UNCHANGED <<collector, data, samples, renderer, screen,
                            renders, i>>
       /\ Terminated]_vars

\* eth0 disappeared after two complete ticks
C7_Witness ==
    /\ pc = "exit"
    /\ message = "Network interface lost. Exiting."
    /\ exit_code = Some(1)
    /\ samples = 2
    /\ renders = 2
    /\ "lo" \in DOMAIN os_reads[1]

\* C8: TrafficCollector(...) fails, and the process exits non-zero before
\* the loop, when the OS reports no interface at all or when the snapshot
\* read for the baseline lacks the named interface: no Sample, no render.
C8_ConstructionFailure ==
    [][/\ pc = "construct" =>
            LET none == os_reads'[1] = NoNics
                absent == /\ Len(os_reads') = 2
                          /\ args.iface # "all"
                          /\ args.iface \notin DOMAIN os_reads'[2]
            IN  (none \/ absent) =>
                  /\ pc' = "exit"
                  /\ exit_code' = Some(1)
                  /\ message' = IF none
                                THEN "RuntimeError: No network interfaces found"
                                ELSE "ValueError: Interface not found"
                  /\ samples' = 0
                  /\ renders' = 0
                  /\ UNCHANGED <<collector, renderer, data, screen>>
       /\ (pc = "exit" /\ samples = 0) => UNCHANGED <<samples, renders, pc>>]_vars

\* wlan0 is not among the interfaces the OS reports
C8_Witness ==
    /\ pc = "exit"
    /\ args.iface = "wlan0"
    /\ message = "ValueError: Interface not found"
    /\ exit_code = Some(1)
    /\ Len(os_reads) = 2
    /\ os_reads[2] # NoNics
    /\ samples = 0
    /\ renders = 0

\* C9: an alpha outside (0, 1] ends the process with status 1 before the
\* collector is constructed (nothing read, sampled or rendered), with or
\* without --no-ema; every collector that samples has alpha in (0, 1].
C9_AlphaValidation ==
    LET a == args.ema_alpha
        valid == 0 < a[1] /\ a[1] <= a[2]
    IN  /\ ~valid =>
             /\ pc \in {"validate", "exit"}
             /\ pc = "exit" =>
                  /\ exit_code = Some(1)
                  /\ message = "EMA alpha must be between 0 and 1"
             /\ os_reads = << >>
             /\ collector = None
             /\ samples = 0
             /\ renders = 0
        /\ samples > 0 =>
             /\ 0 < collector.alpha[1]
             /\ collector.alpha[1] <= collector.alpha[2]
             /\ collector.alpha = a

\* alpha = 0 is rejected although --no-ema was given
C9_Witness ==
    /\ pc = "exit"
    /\ args.no_ema
    /\ args.ema_alpha = <<0, 1>>
    /\ exit_code = Some(1)
    /\ message = "EMA alpha must be between 0 and 1"
    /\ os_reads = << >>

\* the ceilings after each of the bar metrics 10, 50, 5, 80, 20, from 1.0
Ceilings ==
    LET c1 == MaxSeen(R(1), R(10))
        c2 == MaxSeen(c1, R(50))
        c3 == MaxSeen(c2, R(5))
        c4 == MaxSeen(c3, R(80))
        c5 == MaxSeen(c4, R(20))
    IN  <<c1, c2, c3, c4, c5>>

\* C10: the AnsiRenderer's max_sent and max_recv start at 1.0; every render
\* makes each the larger of its previous value and this tick's bar metric, and
\* nothing else changes them: they never decrease and are at least 1.0.  The
\* bar metrics 10, 50, 5, 80, 20 give the ceilings 10, 50, 50, 80, 80, and
\* the third bar fills 5/50 of the 50 cells.
C10_BarCeiling ==
    [][/\ Ceilings = <<R(10), R(50), R(50), R(80), R(80)>>
       /\ RDiv(R(5), Ceilings[3]) = <<1, 10>>
       /\ Bar(R(5), Ceilings[3], BarWidth).blocks = 5
       /\ (pc = "renderer" /\ ~args.json /\ ~args.plain) =>
            /\ renderer'.kind = "AnsiRenderer"
            /\ renderer'.max_sent = R(1)
            /\ renderer'.max_recv = R(1)
       /\ (InLoop /\ renderer.kind = "AnsiRenderer") =>
            LET bar_sent == BarSent(renderer.view, data)
                bar_recv == BarRecv(renderer.view, data)
            IN  /\ renderer'.kind = "AnsiRenderer"
                /\ RLe(R(1), renderer'.max_sent)
                /\ RLe(R(1), renderer'.max_recv)
                /\ RLe(renderer.max_sent, renderer'.max_sent)
                /\ RLe(renderer.max_recv, renderer'.max_recv)
                /\ pc = "render" =>
                     /\ renderer'.max_sent
                          = IF RLt(renderer.max_sent, bar_sent)
                            THEN bar_sent ELSE renderer.max_sent
                     /\ renderer'.max_recv
                          = IF RLt(renderer.max_recv, bar_recv)
                            THEN bar_recv ELSE renderer.max_recv
                /\ pc # "render" =>
                     UNCHANGED <<renderer.max_sent, renderer.max_recv>>]_vars

\* a third render whose bar metric is below the ceiling an earlier tick set
C10_Witness ==
    /\ pc = "count"
    /\ renders = 3
    /\ renderer.kind = "AnsiRenderer"
    /\ RLt(R(1), BarSent(renderer.view, data))
    /\ RLt(BarSent(renderer.view, data), renderer.max_sent)
    /\ RLt(BarRecv(renderer.view, data), R(0))
    /\ RLt(R(1), renderer.max_recv)

\* C11: every bar the AnsiRenderer draws has between 0 and 50 block cells,
\* floor(min(value / max_seen, 1.0) * 50) of them, and block and blank cells
\* together are exactly 50, whatever the sign and size of the bar metric.
C11_BarWithinWidth ==
    (renders >= 1 /\ renderer.kind = "AnsiRenderer") =>
        /\ \A b \in {screen.out, screen.in} :
             /\ 0 <= b.blocks
             /\ b.blocks <= BarWidth
             /\ b.blocks + b.blanks = BarWidth
        /\ pc = "count" =>
             LET value == IF renderer.view = "raw"
                          THEN data.sent_Bps ELSE data.sent_ema_Bps
                 scaled == RDiv(value, renderer.max_sent)
                 ratio == IF RLt(scaled, R(1)) THEN scaled ELSE R(1)
                 cells == RMul(ratio, R(BarWidth))
             IN  /\ RLe(R(screen.out.blocks), cells)
                 /\ RLt(cells, R(screen.out.blocks + 1))

\* C12: a run that ends by leaving the loop has taken exactly one tick with
\* --once and exactly N ticks with --count N, for every N; without either the
\* loop is never left that way.
C12_IterationBound ==
    (pc = "exit" /\ exit_code = Some(0) /\ ~interrupted) =>
        /\ args.once \/ args.count # None
        /\ LET n == IF args.once THEN 1 ELSE args.count[1]
           IN  /\ samples = n
               /\ renders = n
               /\ i = n

\* C13: when the run has stopped because of an interrupt, every tick that
\* began has completed: prev_counters, last_time and the EMA accumulators are
\* those of the last Sample returned (of construction, if there is none), and
\* every Sample returned was rendered.
C13_InterruptAtomic ==
    interrupted =>
        /\ samples = renders
        /\ IF samples = 0
           THEN /\ collector.prev_counters = collector.start_counters
                /\ collector.last_time = collector.start_time
                /\ collector.sent_ema = R(0)
                /\ collector.recv_ema = R(0)
                /\ ~collector.ema_initialized
           ELSE /\ collector.last_time = data.timestamp
                /\ collector.sent_ema = data.sent_ema_Bps
                /\ collector.recv_ema = data.recv_ema_Bps
                /\ collector.prev_counters.sent - collector.start_counters.sent
                     = data.total_sent_B
                /\ collector.prev_counters.recv - collector.start_counters.recv
                     = data.total_recv_B

\* C14: a KeyboardInterrupt raised while main is in its loop (in sample, in
\* render, or between ticks) ends the run with the line "Stopped.", printed
\* once, and exit status 0; no sample or render follows.
C14_GracefulInterrupt ==
    [][/\ (interrupted' /\ ~interrupted) =>
            /\ InLoop
            /\ pc' = "exit"
            /\ message # "Stopped."
            /\ message' = "Stopped."
            /\ exit_code' = Some(0)
            /\ UNCHANGED <<samples, renders, data, screen, i>>
       /\ message' = "Stopped." <=> interrupted'
       /\ interrupted => UNCHANGED vars]_vars

\* render() was interrupted after two ticks and a third sample
C14_Witness ==
    /\ interrupted
    /\ pc = "exit"
    /\ message = "Stopped."
    /\ exit_code = Some(0)
    /\ samples = 3
    /\ renders = 2

C16_RenderersObserve ==
    [][/\ pc = "render" => UNCHANGED <<collector, data>>
       /\ SampleReturned =>
            /\ data' = SampleData(collector, data'.timestamp, os_reads'[1])
            /\ collector' = SampleState(collector, data'.timestamp, os_reads'[1])]_vars

\* the dashboard has drawn a negative rate and moved its ceilings; the Sample
\* and the collector still agree
C16_Witness ==
    /\ pc = "count"
    /\ renders = 2
    /\ renderer.kind = "AnsiRenderer"
    /\ RLt(R(1), renderer.max_recv)
    /\ data.sent_Bps[1] < 0
    /\ collector.last_time = data.timestamp
    /\ collector.sent_ema = data.sent_ema_Bps

\* C17: a collector constructed with the selector "all" never takes the
\* interface-lost exit from sample(): whatever the OS reports on a tick, the
\* empty set included, the call returns a Sample, and the counters it used
\* are the element-wise sum over the interfaces reported at that tick (0 when
\* none is reported).
C17_AllNeverFatal ==
    [][(pc = "sample" /\ collector.iface = "all") =>
         LET reported == os_reads'[1]
             sent_of(n) == IF n \in DOMAIN reported
                           THEN reported[n].bytes_sent ELSE 0
             recv_of(n) == IF n \in DOMAIN reported
                           THEN reported[n].bytes_recv ELSE 0
             sent == sent_of("eth0") + sent_of("lo")
             recv == recv_of("eth0") + recv_of("lo")
         IN  /\ DOMAIN reported \subseteq {"eth0", "lo"}
             /\ SampleReturned
             /\ pc' = "render"
             /\ exit_code' = None
             /\ message' # "Network interface lost. Exiting."
             /\ collector'.prev_counters = [sent |-> sent, recv |-> recv]
             /\ data'.total_sent_B = sent - collector.start_counters.sent
             /\ data'.total_recv_B = recv - collector.start_counters.recv]_vars

\* the OS reported interfaces on the earlier ticks and reports none on the third:
\* the Sample is returned with zero counters and a negative total
C17_Witness ==
    /\ pc = "render"
    /\ samples = 3
    /\ collector.iface = "all"
    /\ os_reads = <<NoNics>>
    /\ collector.prev_counters = [sent |-> 0, recv |-> 0]
    /\ collector.start_counters = [sent |-> 1500, recv |-> 2100]
    /\ data.total_sent_B = -1500
    /\ data.sent_Bps[1] < 0
    /\ exit_code = None

\* C18: in AnsiRenderer.render the value that drives a bar and updates its
\* running maximum is the instantaneous rate when the view is "raw" and the
\* smoothed rate when it is "ema" or "both", for each direction; the view is the
\* one given at construction and never changes.  With EMA disabled the two
\* rates are equal, so every view draws the same bar and keeps the same maxima.
C18_BarMetric ==
    [][(pc = "render" /\ pc' = "count" /\ renderer.kind = "AnsiRenderer") =>
         LET sent == IF args.view = "raw" THEN data.sent_Bps
                     ELSE data.sent_ema_Bps
             recv == IF args.view = "raw" THEN data.recv_Bps
                     ELSE data.recv_ema_Bps
             larger(a, b) == IF RLt(a, b) THEN b ELSE a
         IN  /\ args.view \in {"raw", "ema", "both"}
             /\ renderer.view = args.view
             /\ renderer'.view = args.view
             /\ renderer'.max_sent = larger(renderer.max_sent, sent)
             /\ renderer'.max_recv = larger(renderer.max_recv, recv)
             /\ screen'.out = Bar(sent, renderer'.max_sent, BarWidth)
             /\ screen'.in = Bar(recv, renderer'.max_recv, BarWidth)
             /\ ~data.ema_enabled =>
                  /\ data.sent_ema_Bps = data.sent_Bps
                  /\ data.recv_ema_Bps = data.recv_Bps
                  /\ \A v \in {"raw", "ema", "both"} :
                       /\ RenderState([renderer EXCEPT !.view = v], data).max_sent
                            = renderer'.max_sent
                       /\ RenderState([renderer EXCEPT !.view = v], data).max_recv
                            = renderer'.max_recv
                       /\ RenderOutput([renderer EXCEPT !.view = v], data)
                            = screen']_vars

\* the raw view with EMA enabled, on a later tick whose smoothed rate is above
\* its instantaneous rate: the bar drawn is shorter than the smoothed rate's
C18_Witness ==
    /\ pc = "count"
    /\ renders >= 2
    /\ renderer.kind = "AnsiRenderer"
    /\ renderer.view = "raw"
    /\ data.ema_enabled
    /\ RLt(R(0), data.sent_Bps)
    /\ RLt(data.sent_Bps, data.sent_ema_Bps)
    /\ RLt(R(1), renderer.max_sent)
    /\ screen.out.blocks > 0
    /\ screen.out.blocks
         < Bar(data.sent_ema_Bps, renderer.max_sent, BarWidth).blocks

\* C19: humanize_bytes(value, rate) returns with the unit index k in 0..4 that
\* is the smallest with value / 1024^k < 1024, or 4 when there is none; zero and
\* negative values keep k = 0; the number printed is value / 1024^k rounded to
\* one decimal, the unit is the k-th of B, KB, MB, GB, TB and "/s" follows
\* exactly when rate is true.  The loop never takes idx past 4.
\* (1536, false) gives "1.5 KB", (1048576, true) "1.0 MB/s", (500, false)
\* "500.0 B".
C19_UnitScaling ==
    /\ pc = "humanize_bytes" => call.idx \in 0 .. 4 /\ call.text = None
    /\ pc = "returned" =>
         LET v == call.given
             k == call.idx
             scaled == Magnitude([v EXCEPT !.e = @ - k])
             below(j) == ~ScaledGeOne(v.m[1], v.m[2], v.e - j - 1)
             text(t, u, s) ==
                 [negative |-> FALSE, tenths |-> t, unit |-> u, suffix |-> s]
         IN  /\ k \in 0 .. 4
             /\ k = 4 \/ below(k)
             /\ \A j \in 0 .. k - 1 : ~below(j)
             /\ v.m[1] <= 0 => k = 0
             /\ call.text.unit = <<"B", "KB", "MB", "GB", "TB">>[k + 1]
             /\ call.text.suffix = IF call.rate THEN "/s" ELSE ""
             /\ call.text.negative = (v.m[1] < 0)
             /\ call.text.tenths >= 0
             /\ RLe(RSub(RMul(R(10), scaled), R(call.text.tenths)), <<1, 2>>)
             /\ RLe(RSub(R(call.text.tenths), RMul(R(10), scaled)), <<1, 2>>)
             /\ (v = [m |-> R(1536), e |-> 0] /\ ~call.rate)
                  => call.text = text(15, "KB", "")
             /\ (v = [m |-> R(1048576), e |-> 0] /\ call.rate)
                  => call.text = text(10, "MB", "/s")
             /\ (v = [m |-> R(500), e |-> 0] /\ ~call.rate)
                  => call.text = text(5000, "B", "")

\* 1024^5 bytes per second: the loop stops at the last unit with 1024 left,
\* "1024.0 TB/s"
C19_Witness ==
    /\ pc = "returned"
    /\ call.given = [m |-> R(1), e |-> 5]
    /\ call.rate
    /\ call.idx = 4
    /\ call.value = [m |-> R(1), e |-> 1]
    /\ call.text = [negative |-> FALSE, tenths |-> 10240, unit |-> "TB",
                    suffix |-> "/s"]

\* C20: with EMA enabled and alpha in (0, 1], the smoothed rate of each
\* direction emitted on a tick lies between the minimum and the maximum of the
\* instantaneous rates of that direction observed so far in the run; with
\* alpha = 1 it equals the instantaneous rate of the tick.
C20_EmaBounded ==
    samples >= 1 =>
      /\ \E lo \in DOMAIN history, hi \in DOMAIN history :
           /\ XLe(history[lo].sent_Bps, data.sent_ema_Bps)
           /\ XLe(data.sent_ema_Bps, history[hi].sent_Bps)
      /\ \E lo \in DOMAIN history, hi \in DOMAIN history :
           /\ XLe(history[lo].recv_Bps, data.recv_ema_Bps)
           /\ XLe(data.recv_ema_Bps, history[hi].recv_Bps)
      /\ data.ema_alpha = FromInt(1) =>
           /\ data.sent_ema_Bps = data.sent_Bps
           /\ data.recv_ema_Bps = data.recv_Bps

\* C20, amended: after n ticks the smoothed rate lies within n * 2^-50 times
\* the largest magnitude among the observed instantaneous rates of the range
\* they span; on the first tick, and on every tick when alpha = 1, it equals the
\* instantaneous rate exactly.
C20_EmaBoundedRounded ==
    samples >= 1 =>
      /\ \E lo \in DOMAIN history, hi \in DOMAIN history, big \in DOMAIN history :
           LET mag(x) == [x EXCEPT !.neg = FALSE]
               ulps == [neg |-> FALSE, m |-> BFromInt(samples), e |-> -50]
               tol == XMul(mag(history[big].sent_Bps), ulps)
           IN  /\ \A j \in DOMAIN history :
                    XLe(mag(history[j].sent_Bps), mag(history[big].sent_Bps))
               /\ XLe(XAdd(history[lo].sent_Bps, XNeg(tol)), data.sent_ema_Bps)
               /\ XLe(data.sent_ema_Bps, XAdd(history[hi].sent_Bps, tol))
      /\ \E lo \in DOMAIN history, hi \in DOMAIN history, big \in DOMAIN history :
           LET mag(x) == [x EXCEPT !.neg = FALSE]
               ulps == [neg |-> FALSE, m |-> BFromInt(samples), e |-> -50]
               tol == XMul(mag(history[big].recv_Bps), ulps)
           IN  /\ \A j \in DOMAIN history :
                    XLe(mag(history[j].recv_Bps), mag(history[big].recv_Bps))
               /\ XLe(XAdd(history[lo].recv_Bps, XNeg(tol)), data.recv_ema_Bps)
               /\ XLe(data.recv_ema_Bps, XAdd(history[hi].recv_Bps, tol))
      /\ (samples = 1 \/ data.ema_alpha = FromInt(1)) =>
           /\ data.sent_ema_Bps = data.sent_Bps
           /\ data.recv_ema_Bps = data.recv_Bps

\* alpha = 0.2 and a rate of 3.0 on both ticks: the smoothed rate is
\* 3.0000000000000004, one unit in the last place above every observed rate
C20_Witness ==
    /\ samples = 2
    /\ data.ema_alpha = FromRatio(1, 5)
    /\ history[1].sent_Bps = FromInt(3)
    /\ history[2].sent_Bps = FromInt(3)
    /\ XLt(FromInt(3), data.sent_ema_Bps)
    /\ data.sent_ema_Bps
         = [neg |-> FALSE, m |-> BAdd(BShl(<<3>>, 51), <<1>>), e |-> -51]

====
